---- MODULE Spec2Model ----
(***************************************************************************)
(* Model of the Elo rating engine of build_grand_slams.py:                 *)
(* expected_score, round_weight and compute_elo_timeseries.                *)
(*                                                                         *)
(* Python floats are modelled as binary floating-point numbers with        *)
(* Precision significant bits (53 in CPython) and least exponent           *)
(* -FracBits.  A number is held as an integer count of units of            *)
(* 2^-FracBits; every arithmetic operation computes the exact result and   *)
(* rounds it once, to nearest, ties to even, as IEEE 754 does.             *)
(***************************************************************************)
EXTENDS Integers, Sequences, FiniteSets, TLC

\* ------------------------------------------------------------------ bounds
\* Bits after the binary point of the smallest representable step.
FracBits == 8
\* Significant bits of a float.
Precision == 12
\* Longest input sequence of match events.
MaxEvents == 3
\* Longest round label enumerated for round_weight.
MaxLabelLen == 3

\* ---------------------------------------------------------------- floats
One == 2^FracBits

Abs(x) == IF x < 0 THEN -x ELSE x

\* num/den (den > 0) rounded to the nearest integer, ties to even.
RoundDiv(num, den) ==
    LET q == num \div den
        r == num - q * den
    IN  IF 2 * r < den THEN q
        ELSE IF 2 * r > den THEN q + 1
        ELSE IF q % 2 = 0 THEN q ELSE q + 1

\* Number of low bits a magnitude m (in units) has to drop to fit Precision bits.
RECURSIVE Shift(_)
Shift(m) == IF m < 2^Precision THEN 0 ELSE 1 + Shift(m \div 2)

\* Spacing of the floats around x.
Ulp(x) == 2^Shift(Abs(x))

\* The float nearest to the exact value num/den units (den > 0).
Fl(num, den) ==
    LET e == Shift(Abs(num) \div den)
    IN  RoundDiv(num, den * 2^e) * 2^e

FromInt(n) == Fl(n * One, 1)
\* A literal given in halves (36.5 is FromHalves(73)).
FromHalves(h) == Fl(h * One, 2)

FAdd(a, b) == Fl(a + b, 1)
FSub(a, b) == Fl(a - b, 1)
FMul(a, b) == Fl(a * b, One)
FDiv(a, b) == IF b > 0 THEN Fl(a * One, b) ELSE Fl(-(a * One), -b)

\* 10^(1/2), 10^(1/4), ... scaled by PowScale: the table of the pow routine.
PowScale == 2^12
Pow10Roots == <<12953, 7284, 5462, 4730, 4402, 4246, 4170, 4133, 4114, 4105, 4101, 4098>>

RECURSIVE PowFrac(_, _, _)
\* 10^(f / One) scaled by PowScale, for 0 <= f < One: the product of the
\* roots selected by the bits of f, most significant first.
PowFrac(f, i, acc) ==
    IF i > FracBits THEN acc
    ELSE LET bit == (f \div 2^(FracBits - i)) % 2
         IN  PowFrac(f, i + 1,
                     IF bit = 1 THEN RoundDiv(acc * Pow10Roots[i], PowScale) ELSE acc)

\* 10.0 ** x
Pow10(x) ==
    LET n == x \div One
        f == x - n * One
        m == PowFrac(f, 1, PowScale)
    IN  IF n >= 0 THEN Fl(m * 10^n * One, PowScale)
        ELSE Fl(m * One, PowScale * 10^(-n))

\* ------------------------------------------------------- expected_score
EloDivisor == 400

expected_score_swapped(elo_player, elo_opp) ==
    FDiv(One, FAdd(One, Pow10(FDiv(FSub(elo_player, elo_opp), FromInt(EloDivisor)))))

expected_score(elo_player, elo_opp) ==
    FDiv(One, FAdd(One, Pow10(FDiv(FSub(elo_opp, elo_player), FromInt(EloDivisor)))))

\* --------------------------------------------------------- round_weight
\* A round label is a sequence of one-character strings.
ToUpper(c) ==
    CASE c = "f" -> "F"
      [] c = "s" -> "S"
      [] c = "q" -> "Q"
      [] c = "r" -> "R"
      [] OTHER -> c

\* str.upper()
Upper(s) == [n \in 1..Len(s) |-> ToUpper(s[n])]

\* sub in s
Contains(sub, s) ==
    \E n \in 1..(Len(s) - Len(sub) + 1) : SubSeq(s, n, n + Len(sub) - 1) = sub

\* The exact-label table of round_weight.
mapping ==
    (<<"R", "1", "2", "8">> :> 0) @@ (<<"R", "6", "4">> :> 2) @@
    (<<"R", "3", "2">> :> 3) @@ (<<"R", "1", "6">> :> 4) @@
    (<<"Q", "F">> :> 5) @@ (<<"S", "F">> :> 6) @@ (<<"F">> :> 8)

\* mapping.get(r, 0.0)
MappingGet(r) == IF r \in DOMAIN mapping THEN mapping[r] ELSE 0

round_weight_f_substring(round_str) ==
    LET r == Upper(round_str)
    IN  FromInt(IF Contains(<<"F">>, r) THEN 8
                ELSE IF Contains(<<"S", "F">>, r) THEN 6
                ELSE IF Contains(<<"Q", "F">>, r) THEN 5
                ELSE IF Contains(<<"1", "6">>, r) THEN 4
                ELSE IF Contains(<<"3", "2">>, r) THEN 3
                ELSE IF Contains(<<"6", "4">>, r) THEN 2
                ELSE MappingGet(r))

round_weight(round_str) ==
    LET r == Upper(round_str)
    IN  FromInt(IF <<"F">> = r THEN 8
                ELSE IF Contains(<<"S", "F">>, r) THEN 6
                ELSE IF Contains(<<"Q", "F">>, r) THEN 5
                ELSE IF Contains(<<"1", "6">>, r) THEN 4
                ELSE IF Contains(<<"3", "2">>, r) THEN 3
                ELSE IF Contains(<<"6", "4">>, r) THEN 2
                ELSE MappingGet(r))

\* ------------------------------------------------------------- the state
VARIABLES
    cfg,        \* seed_elo, base_k, gs_bonus_k, decay_per_365d (floats)
    df_gs,      \* the input frame: a sequence of rows
    df,         \* the sorted copy the loop iterates over
    i,          \* position of the loop in df (1-based)
    elo,        \* name_norm -> rating, for the keys the defaultdict holds
    last_date,  \* name_norm -> last activity date
    records,    \* the snapshots appended so far
    pc,         \* "call", "loop", "done"; "round" in the round_weight harness
    rw_in,      \* round_weight harness: the label
    rw_out      \* round_weight harness: the result, <<>> before the call

vars == <<cfg, df_gs, df, i, elo, last_date, records, pc, rw_in, rw_out>>

\* A missing value (NaT / NaN) is <<>>; a present value v is <<v>>.
Null == <<>>
Some(v) == <<v>>
notna(x) == x # Null

\* ------------------------------------------------------------ sort_values
\* Order of two cells of one key column, missing values last: -1, 0 or 1.
ColCmpNaFirst(x, y) ==
    IF x = Null /\ y = Null THEN 0
    ELSE IF x = Null THEN -1
    ELSE IF y = Null THEN 1
    ELSE IF x[1] < y[1] THEN -1
    ELSE IF x[1] > y[1] THEN 1
    ELSE 0

ColCmp(x, y) ==
    IF x = Null /\ y = Null THEN 0
    ELSE IF x = Null THEN 1
    ELSE IF y = Null THEN -1
    ELSE IF x[1] < y[1] THEN -1
    ELSE IF x[1] > y[1] THEN 1
    ELSE 0

\* Lexicographic order on ["tourney_date", "tourney_id", "match_num"].
KeyCmp(r, s) ==
    IF ColCmp(r.tourney_date, s.tourney_date) # 0
    THEN ColCmp(r.tourney_date, s.tourney_date)
    ELSE IF ColCmp(Some(r.tourney_id), Some(s.tourney_id)) # 0
    THEN ColCmp(Some(r.tourney_id), Some(s.tourney_id))
    ELSE ColCmp(r.match_num, s.match_num)

RECURSIVE InsertRow(_, _)
\* sorted with row r put after every row whose key is not greater.
InsertRow(sorted, r) ==
    IF sorted = <<>> THEN <<r>>
    ELSE IF KeyCmp(sorted[Len(sorted)], r) <= 0 THEN Append(sorted, r)
    ELSE Append(InsertRow(SubSeq(sorted, 1, Len(sorted) - 1), r), sorted[Len(sorted)])

RECURSIVE SortPrefix(_, _)
SortPrefix(frame, n) ==
    IF n = 0 THEN <<>> ELSE InsertRow(SortPrefix(frame, n - 1), frame[n])

\* frame.sort_values([...], na_position="last"): a stable multi-key sort.
sort_values(frame) == SortPrefix(frame, Len(frame))

\* ------------------------------------------------- compute_elo_timeseries
DaysPerYear == 365

\* elo[p] of the defaultdict: the stored rating, seed_elo for a new key.
EloGet(e, p, seed_elo) == IF p \in DOMAIN e THEN e[p] ELSE seed_elo

\* d[p] = v
DictSet(d, p, v) == [q \in (DOMAIN d) \cup {p} |-> IF q = p THEN v ELSE d[q]]

\* Body of the decay loop for one participant p of a match dated d.
DecayOne(e, ld, p, d, decay, seed_elo) ==
    IF p \in DOMAIN ld /\ notna(ld[p])
    THEN LET idle_days == d[1] - ld[p][1]
         IN  IF idle_days # 0 /\ idle_days > 0
             THEN DictSet(e, p,
                          FSub(EloGet(e, p, seed_elo),
                               FDiv(FMul(decay, FromInt(idle_days)), FromInt(DaysPerYear))))
             ELSE e
    ELSE e

ApplyDecayNone(e, ld, wn, ln, d, decay, seed_elo) == e

ApplyDecayAll(e, ld, wn, ln, d, decay, seed_elo) ==
    IF decay > 0 /\ notna(d)
    THEN [q \in DOMAIN e |-> DecayOne(e, ld, q, d, decay, seed_elo)[q]]
    ELSE e

\* Passive decay for both players before the match: for p in (wn, ln).
ApplyDecay(e, ld, wn, ln, d, decay, seed_elo) ==
    IF decay > 0 /\ notna(d)
    THEN DecayOne(DecayOne(e, ld, wn, d, decay, seed_elo), ld, ln, d, decay, seed_elo)
    ELSE e

KFactorBonusOnly(base_k, gs_bonus_k, rd) == FMul(gs_bonus_k, round_weight(rd))

\* k = base_k + (gs_bonus_k * round_weight(rd))
KFactor(base_k, gs_bonus_k, rd) == FAdd(base_k, FMul(gs_bonus_k, round_weight(rd)))

\* ew_new = ew + k * (outcome_w - exp_w), outcome_w = 1.0
WinnerUpdate(ew, k, exp_w) == FAdd(ew, FMul(k, FSub(One, exp_w)))

LoserUpdateWinnerExp(el, k, exp_l) == FAdd(el, FMul(k, FSub(0, FSub(One, exp_l))))

\* el_new = el + k * (outcome_l - exp_l), outcome_l = 0.0
LoserUpdate(el, k, exp_l) == FAdd(el, FMul(k, FSub(0, exp_l)))

SetLastDateAlways(ld, wn, ln, d) == DictSet(DictSet(ld, wn, d), ln, d)

\* Activity dates: only a valid date is recorded.
SetLastDate(ld, wn, ln, d) ==
    IF notna(d) THEN DictSet(DictSet(ld, wn, d), ln, d) ELSE ld

\* The copy sorted by date, tournament and match number; the empty stores.
SortFrame ==
    /\ pc = "call"
    /\ df' = sort_values(df_gs)
    /\ elo' = <<>>
    /\ last_date' = <<>>
    /\ records' = <<>>
    /\ i' = 1
    /\ pc' = "loop"
    /\ UNCHANGED <<cfg, df_gs, rw_in, rw_out>>

\* One iteration of "for i, row in df.iterrows()".
IterRow ==
    /\ pc = "loop"
    /\ i <= Len(df)
    /\ LET row == df[i]
           d == row.tourney_date
           wn == row.winner_name_norm
           ln == row.loser_name_norm
           rd == row.round
           decayed == ApplyDecay(elo, last_date, wn, ln, d,
                                 cfg.decay_per_365d, cfg.seed_elo)
           ew == EloGet(decayed, wn, cfg.seed_elo)
           el == EloGet(decayed, ln, cfg.seed_elo)
           exp_w == expected_score(ew, el)
           exp_l == FSub(One, exp_w)
           k == KFactor(cfg.base_k, cfg.gs_bonus_k, rd)
           ew_new == WinnerUpdate(ew, k, exp_w)
           el_new == LoserUpdate(el, k, exp_l)
       IN  /\ elo' = DictSet(DictSet(decayed, wn, ew_new), ln, el_new)
           /\ last_date' = SetLastDate(last_date, wn, ln, d)
           /\ records' = Append(records,
                  [tourney_id |-> row.tourney_id,
                   tourney_date |-> d,
                   round |-> row.round,
                   winner_name_norm |-> wn,
                   loser_name_norm |-> ln,
                   winner_elo_pre |-> ew,
                   loser_elo_pre |-> el,
                   winner_elo_post |-> ew_new,
                   loser_elo_post |-> el_new,
                   k_used |-> k,
                   exp_winner |-> exp_w,
                   exp_loser |-> exp_l])
    /\ i' = i + 1
    /\ UNCHANGED <<cfg, df_gs, df, pc, rw_in, rw_out>>

\* return pd.DataFrame.from_records(records)
Return ==
    /\ pc = "loop"
    /\ i > Len(df)
    /\ pc' = "done"
    /\ UNCHANGED <<cfg, df_gs, df, i, elo, last_date, records, rw_in, rw_out>>

\* A call of round_weight on the harness's label.
CallRoundWeight ==
    /\ pc = "round"
    /\ rw_out = Null
    /\ rw_out' = Some(round_weight(rw_in))
    /\ UNCHANGED <<cfg, df_gs, df, i, elo, last_date, records, pc, rw_in>>

\* ------------------------------------------------------------ the inputs
Players == {"a", "b", "c"}

RF == <<"F">>
RQF == <<"Q", "F">>
R16 == <<"R", "1", "6">>
R32 == <<"R", "3", "2">>
R64 == <<"R", "6", "4">>

Row(date, tid, mnum, rd, wn, ln) ==
    [tourney_date |-> date, tourney_id |-> tid, match_num |-> mnum,
     round |-> rd, winner_name_norm |-> wn, loser_name_norm |-> ln]

Frames(rows) == UNION {[1..n -> rows] : n \in 0..MaxEvents}

Config(seed, base, bonus, decayHalves) ==
    [seed_elo |-> FromInt(seed), base_k |-> FromInt(base),
     gs_bonus_k |-> FromInt(bonus), decay_per_365d |-> FromHalves(decayHalves)]

InitIdle ==
    /\ df = <<>>
    /\ i = 1
    /\ elo = <<>>
    /\ last_date = <<>>
    /\ records = <<>>

\* Matches between three players, one of them against the own key, on two
\* dates, and a match without a date.
FoldRows ==
    {Row(date, 1, Null, m[3], m[1], m[2]) :
        date \in {Some(1), Some(101)},
        m \in {<<"a", "b", RF>>, <<"c", "a", R16>>, <<"a", "a", R64>>}}
    \cup {Row(Null, 1, Null, RF, "a", "b")}

\* The default configuration, one with decay, one with a round bonus.
FoldConfigs ==
    {Config(1500, 32, 0, 0), Config(1500, 32, 0, 73), Config(1000, 16, 1, 0)}

Init ==
    /\ InitIdle
    /\ pc = "call"
    /\ cfg \in FoldConfigs
    /\ df_gs \in Frames(FoldRows)
    /\ rw_in = <<>>
    /\ rw_out = Null

Next == SortFrame \/ IterRow \/ Return

Spec == Init /\ [][Next]_vars

\* Rows that differ in their sort keys; the round tells the input rows apart.
SortRounds == <<R64, R32, R16, RQF, RF>>

SortKeys ==
    {<<date, tid, mnum>> :
        date \in {Null, Some(1), Some(2)}, tid \in {1, 2},
        mnum \in {Null, Some(1), Some(2)}}

InitSort ==
    /\ InitIdle
    /\ pc = "call"
    /\ cfg = Config(1500, 32, 0, 0)
    /\ \E n \in 0..MaxEvents : \E keys \in [1..n -> SortKeys] :
          df_gs = [j \in 1..n |->
                      Row(keys[j][1], keys[j][2], keys[j][3], SortRounds[j], "a", "b")]
    /\ rw_in = <<>>
    /\ rw_out = Null

SpecSort == InitSort /\ [][Next]_vars

\* Every label of up to MaxLabelLen characters, and the table's labels.
RoundChars == {"F", "f", "S", "s", "Q", "q", "R", "1", "2", "3", "4", "6", "8"}

RoundLabels ==
    UNION {[1..n -> RoundChars] : n \in 0..MaxLabelLen} \cup DOMAIN mapping

InitRound ==
    /\ InitIdle
    /\ pc = "round"
    /\ cfg = Config(1500, 32, 0, 0)
    /\ df_gs = <<>>
    /\ \E l \in RoundLabels : rw_in = l
    /\ rw_out = Null

NextRound == CallRoundWeight

SpecRound == InitRound /\ [][NextRound]_vars

\* ------------------------------------------------ reading the snapshots
Involves(r, p) == r.winner_name_norm = p \/ r.loser_name_norm = p

Participants(r) == {r.winner_name_norm, r.loser_name_norm}

\* The pre-match rating snapshot n records for participant p.
PreOf(n, p) ==
    IF records[n].winner_name_norm = p THEN records[n].winner_elo_pre
    ELSE records[n].loser_elo_pre

\* The rating left in the store for p by event n (the loser's write is the later one).
PostOf(n, p) ==
    IF records[n].loser_name_norm = p THEN records[n].loser_elo_post
    ELSE records[n].winner_elo_post

\* The last event before n that involved p, 0 when there is none.
PrevEvent(n, p) ==
    LET earlier == {m \in 1..(n - 1) : Involves(records[m], p)}
    IN  IF earlier = {} THEN 0 ELSE CHOOSE m \in earlier : \A o \in earlier : o <= m

\* The rating committed for p by the events before n.
Committed(n, p) ==
    IF PrevEvent(n, p) = 0 THEN cfg.seed_elo ELSE PostOf(PrevEvent(n, p), p)

\* The date of the last dated event before n that involved p, Null when none.
LastActive(n, p) ==
    LET dated == {m \in 1..(n - 1) : Involves(records[m], p) /\ notna(records[m].tourney_date)}
    IN  IF dated = {} THEN Null
        ELSE records[CHOOSE m \in dated : \A o \in dated : o <= m].tourney_date

\* Whether event n finds p idle: decay configured, both dates known, idle_days > 0.
Idle(n, p) ==
    /\ cfg.decay_per_365d > 0
    /\ notna(records[n].tourney_date)
    /\ notna(LastActive(n, p))
    /\ records[n].tourney_date[1] - LastActive(n, p)[1] > 0

\* decay_per_365d * idle_days / 365 for p at event n.
DecayAmount(n, p) ==
    FDiv(FMul(cfg.decay_per_365d,
              FromInt(records[n].tourney_date[1] - LastActive(n, p)[1])),
         FromInt(DaysPerYear))

SelfMatch(r) == r.winner_name_norm = r.loser_name_norm

\* ---------------------------------------------------------------- claims

\* C1 as stated: every pre-match rating a snapshot records equals the rating
\* committed after the previous event involving that player, seed_elo when
\* the player has no previous event.
C1_PreIsPreviousPost ==
    \A n \in 1..Len(records) : \A p \in Participants(records[n]) :
        PreOf(n, p) = Committed(n, p)

\* C1 amended: the pre-match rating equals the rating committed after the
\* previous event involving the player, less the passive decay the current
\* event applies to that player before reading it (one subtraction of
\* decay_per_365d * idle_days / 365 per slot the player fills), and equals
\* seed_elo when the player has no previous event.
C1_PreIsPreviousPostLessDecay ==
    \A n \in 1..Len(records) : \A p \in Participants(records[n]) :
        PreOf(n, p) =
            IF ~Idle(n, p) THEN Committed(n, p)
            ELSE IF SelfMatch(records[n])
            THEN FSub(FSub(Committed(n, p), DecayAmount(n, p)), DecayAmount(n, p))
            ELSE FSub(Committed(n, p), DecayAmount(n, p))

\* C1 witness: a snapshot of a player seen before, read after decay was applied.
C1_Witness ==
    \E n \in 1..Len(records) : \E p \in Participants(records[n]) :
        /\ PrevEvent(n, p) # 0
        /\ Idle(n, p)
        /\ PreOf(n, p) < Committed(n, p)

\* Sum of the two post - pre differences of snapshot r, as exact numbers.
TransferResidue(r) ==
    (r.winner_elo_post - r.winner_elo_pre) + (r.loser_elo_post - r.loser_elo_pre)

\* The increment k * (1 - exp_winner) of snapshot r.
Increment(r) == FMul(r.k_used, FSub(One, r.exp_winner))

\* The weight of the rounds the fold's inputs use, from the priority rules.
WeightOfRound(rd) ==
    CASE rd = RF -> 8 [] rd = RQF -> 5 [] rd = R16 -> 4 [] rd = R32 -> 3
      [] rd = R64 -> 2 [] OTHER -> 0

\* C2 as stated: with decay disabled the two post - pre differences of every
\* snapshot sum to exactly zero.
C2_ZeroSumExact ==
    \A n \in 1..Len(records) :
        cfg.decay_per_365d = 0 =>
            FAdd(FSub(records[n].winner_elo_post, records[n].winner_elo_pre),
                 FSub(records[n].loser_elo_post, records[n].loser_elo_pre)) = 0

\* C2 amended: with decay disabled every event adds the same increment
\* k * (1 - exp_winner), k = base_k + gs_bonus_k * round_weight(round), to the
\* winner and subtracts it from the loser, each sum rounded once; the two
\* differences cancel up to the rounding of those two additions.
C2_ZeroSumUpToRounding ==
    \A n \in 1..Len(records) :
        cfg.decay_per_365d = 0 =>
            LET r == records[n]
            IN  /\ r.k_used = FAdd(cfg.base_k,
                                   FMul(cfg.gs_bonus_k, FromInt(WeightOfRound(r.round))))
                /\ r.winner_elo_post = FAdd(r.winner_elo_pre, Increment(r))
                /\ r.loser_elo_post = FSub(r.loser_elo_pre, Increment(r))
                /\ 2 * Abs(TransferResidue(r))
                      <= Ulp(r.winner_elo_post) + Ulp(r.loser_elo_post)

\* C2 witness: an event between unequal players, decay disabled, whose two
\* differences do not cancel.
C2_Witness ==
    \E n \in 1..Len(records) :
        /\ cfg.decay_per_365d = 0
        /\ ~SelfMatch(records[n])
        /\ records[n].exp_winner # records[n].exp_loser
        /\ TransferResidue(records[n]) # 0

\* C3: a participant idle for idle_days > 0 under decay_per_365d > 0 has the
\* stored rating reduced by exactly decay_per_365d * idle_days / 365 before
\* the ratings are read, and the reduced value is the snapshot's pre-match
\* rating; otherwise nothing is subtracted.
C3_DecayOnceBeforeRead ==
    \A n \in 1..Len(records) : \A p \in Participants(records[n]) :
        PreOf(n, p) =
            IF Idle(n, p) THEN FSub(Committed(n, p), DecayAmount(n, p))
            ELSE Committed(n, p)

\* C7 as stated: expected_score(a, b) + expected_score(b, a) = 1 for the
\* ratings the fold reaches.
C7_ScoresSumToOne ==
    \A n \in 1..Len(records) :
        FAdd(expected_score(records[n].winner_elo_pre, records[n].loser_elo_pre),
             expected_score(records[n].loser_elo_pre, records[n].winner_elo_pre)) = One

\* C7 amended: expected_score(a, a) = 0.5, the two orientations sum to 1 up
\* to rounding, and every snapshot has exp_winner + exp_loser = 1 exactly,
\* with exp_winner the score of the winner's pre-match rating against the
\* loser's: at least 0.5 when the winner is rated no lower, at most 0.5 when
\* no higher.
C7_ScoresSumToOneUpToRounding ==
    \A n \in 1..Len(records) :
        LET r == records[n]
            a == r.winner_elo_pre
            b == r.loser_elo_pre
        IN  /\ 2 * expected_score(a, a) = One
            /\ 2 * expected_score(b, b) = One
            /\ Abs(expected_score(a, b) + expected_score(b, a) - One) <= 1
            /\ FAdd(r.exp_winner, r.exp_loser) = One
            /\ r.exp_winner = expected_score(a, b)
            /\ a >= b => 2 * r.exp_winner >= One
            /\ a <= b => 2 * r.exp_winner <= One

\* C7 witness: a snapshot of unequal ratings whose two orientations do not
\* sum to 1.
C7_Witness ==
    \E n \in 1..Len(records) :
        /\ records[n].winner_elo_pre > records[n].loser_elo_pre
        /\ records[n].exp_winner > records[n].exp_loser
        /\ expected_score(records[n].winner_elo_pre, records[n].loser_elo_pre)
             + expected_score(records[n].loser_elo_pre, records[n].winner_elo_pre) # One

RECURSIVE SumOver(_, _)
SumOver(f, S) ==
    IF S = {} THEN 0
    ELSE LET x == CHOOSE y \in S : TRUE IN f[x] + SumOver(f, S \ {x})

\* C10: with decay disabled the stored ratings of the players seen so far
\* sum to seed_elo times their number.
C10_RatingsConserved ==
    cfg.decay_per_365d = 0 =>
        SumOver(elo, DOMAIN elo) = cfg.seed_elo * Cardinality(DOMAIN elo)

\* Rank of a key cell with missing values last.
NaLast(x) == IF x = Null THEN <<1, 0>> ELSE <<0, x[1]>>

\* The sort key (tourney_date, tourney_id, match_num) of a row as a tuple.
KeyTuple(r) ==
    <<NaLast(r.tourney_date)[1], NaLast(r.tourney_date)[2], r.tourney_id,
      NaLast(r.match_num)[1], NaLast(r.match_num)[2]>>

\* Strict lexicographic order of two key tuples.
TupleBefore(x, y) ==
    \E n \in 1..Len(x) : x[n] < y[n] /\ \A m \in 1..(n - 1) : x[m] = y[m]

\* Position of row r in the input frame (the inputs of SpecSort are distinct).
InputPos(r) == CHOOSE j \in 1..Len(df_gs) : df_gs[j] = r

\* C4: the loop runs over the input rows in ascending key order, missing
\* dates and match numbers last, equal keys in input order, and the
\* snapshots come out in that order.
C4_ProcessedInKeyOrder ==
    pc # "call" =>
        /\ Len(df) = Len(df_gs)
        /\ {df[n] : n \in 1..Len(df)} = {df_gs[n] : n \in 1..Len(df_gs)}
        /\ \A m, n \in 1..Len(df) :
              m < n =>
                  \/ TupleBefore(KeyTuple(df[m]), KeyTuple(df[n]))
                  \/ /\ KeyTuple(df[m]) = KeyTuple(df[n])
                     /\ InputPos(df[m]) < InputPos(df[n])
        /\ Len(records) = i - 1
        /\ \A n \in 1..Len(records) :
              /\ records[n].round = df[n].round
              /\ records[n].tourney_date = df[n].tourney_date
              /\ records[n].tourney_id = df[n].tourney_id

\* C4 witness: a finished run whose input held a row without a date before
\* two dated rows of equal keys, the latter two kept in input order.
C4_Witness ==
    /\ pc = "done"
    /\ Len(records) = Len(df_gs)
    /\ df # df_gs
    /\ \E m, n \in 1..Len(df_gs) :
          m < n /\ df_gs[m].tourney_date = Null /\ df_gs[n].tourney_date # Null
    /\ \E m, n \in 1..Len(df) :
          /\ m < n
          /\ KeyTuple(df[m]) = KeyTuple(df[n])
          /\ records[m].round = df_gs[InputPos(df[m])].round
          /\ InputPos(df[m]) < InputPos(df[n])

\* The date last_date must hold for p after the snapshots taken so far.
LastActiveNow(p) == LastActive(Len(records) + 1, p)

\* C5: one snapshot per event; an event without a date applies no decay and
\* leaves every last_active as it was, and still commits the normal update
\* of both participants.
C5_NoEventDropped ==
    /\ pc = "done" => Len(records) = Len(df_gs)
    /\ pc = "loop" => Len(records) = i - 1
    /\ \A n \in 1..Len(records) :
          records[n].tourney_date = Null =>
              LET r == records[n]
              IN  /\ \A p \in Participants(r) : PreOf(n, p) = Committed(n, p)
                  /\ r.winner_elo_post = FAdd(r.winner_elo_pre, Increment(r))
                  /\ r.loser_elo_post = FSub(r.loser_elo_pre, Increment(r))
    /\ \A p \in Players :
          /\ p \in DOMAIN last_date <=> LastActiveNow(p) # Null
          /\ p \in DOMAIN last_date => last_date[p] = LastActiveNow(p)
    /\ \A p \in Players :
          /\ p \in DOMAIN elo <=> PrevEvent(Len(records) + 1, p) # 0
          /\ p \in DOMAIN elo => elo[p] = Committed(Len(records) + 1, p)

\* C5 witness: a finished run under decay in which an event without a date
\* followed a dated event of one of its participants.
C5_Witness ==
    /\ pc = "done"
    /\ cfg.decay_per_365d > 0
    /\ \E n \in 1..Len(records) : \E p \in Participants(records[n]) :
          /\ records[n].tourney_date = Null
          /\ LastActive(n, p) # Null
          /\ PostOf(n, p) # PreOf(n, p)
          /\ last_date[p] = LastActive(n, p)

\* The first rule of the priority list that the uppercased label meets.
RoundRules ==
    <<[pat |-> <<"S", "F">>, w |-> 6], [pat |-> <<"Q", "F">>, w |-> 5],
      [pat |-> <<"1", "6">>, w |-> 4], [pat |-> <<"3", "2">>, w |-> 3],
      [pat |-> <<"6", "4">>, w |-> 2]>>

FirstRuleWeight(r) ==
    IF r = <<"F">> THEN 8
    ELSE LET hits == {n \in 1..Len(RoundRules) : Contains(RoundRules[n].pat, r)}
         IN  IF hits = {} THEN 0
             ELSE RoundRules[CHOOSE n \in hits : \A m \in hits : n <= m].w

\* C6: round_weight returns the value of the first rule, in priority order,
\* that the uppercased label meets, 0 when none does; the exact-label table
\* never changes the result (QF 5, R16 4, SF 6, F 8, RR 0).
C6_FirstMatchingRule ==
    rw_out # Null =>
        /\ rw_out = Some(FromInt(FirstRuleWeight(Upper(rw_in))))
        /\ rw_in = <<"Q", "F">> => rw_out = Some(FromInt(5))
        /\ rw_in = <<"R", "1", "6">> => rw_out = Some(FromInt(4))
        /\ rw_in = <<"S", "F">> => rw_out = Some(FromInt(6))
        /\ rw_in = <<"F">> => rw_out = Some(FromInt(8))
        /\ rw_in = <<"R", "R">> => rw_out = Some(FromInt(0))
        /\ rw_in \in DOMAIN mapping => rw_out = Some(FromInt(mapping[rw_in]))

\* C6 witness: a label that meets the rules for "16" and for "64" got the
\* value of the earlier one.
C6_Witness ==
    /\ rw_in = <<"1", "6", "4">>
    /\ rw_out = Some(FromInt(4))

\* Values of base_k to compare, in halves: -32, -16, 0, 16, 32, 32.5.
AltBaseKs == {FromHalves(h) : h \in {-64, -32, 0, 32, 64, 65}}

\* The winner's post-match rating of snapshot r had base_k been bk.
WinnerPostWith(r, bk) ==
    WinnerUpdate(r.winner_elo_pre, KFactor(bk, cfg.gs_bonus_k, r.round), r.exp_winner)

\* |winner_elo_post - winner_elo_pre| of snapshot r had base_k been bk.
DeltaWith(r, bk) == Abs(WinnerPostWith(r, bk) - r.winner_elo_pre)

\* C8 as stated: with the pre-match ratings, the round and gs_bonus_k fixed
\* and exp_winner # 1, a larger base_k gives a strictly larger
\* |winner_elo_post - winner_elo_pre|.
C8_BaseKStrictlyMonotone ==
    \A n \in 1..Len(records) : \A bk1, bk2 \in AltBaseKs :
        (bk1 < bk2 /\ records[n].exp_winner # One) =>
            DeltaWith(records[n], bk2) > DeltaWith(records[n], bk1)

\* C8 amended: while the effective K = base_k + gs_bonus_k * round_weight is
\* not negative, a larger base_k never gives a smaller magnitude, and gives a
\* strictly larger one when the increments differ by more than the rounding
\* step of the rating; while it is not positive a larger base_k never gives
\* a larger magnitude; the snapshot's own change is the one of cfg.base_k.
C8_BaseKMonotoneForNonNegativeK ==
    \A n \in 1..Len(records) :
        LET r == records[n]
            bonus == FMul(cfg.gs_bonus_k, FromInt(WeightOfRound(r.round)))
            post == [bk \in AltBaseKs |-> WinnerPostWith(r, bk)]
            delta == [bk \in AltBaseKs |-> Abs(post[bk] - r.winner_elo_pre)]
        IN  /\ DeltaWith(r, cfg.base_k) = Abs(r.winner_elo_post - r.winner_elo_pre)
            /\ \A bk1, bk2 \in AltBaseKs :
                  (bk1 < bk2 /\ r.exp_winner # One /\ bk1 + bonus >= 0) =>
                      /\ delta[bk2] >= delta[bk1]
                      /\ (bk2 - bk1) * (One - r.exp_winner) > One * (Ulp(post[bk2]) + 1)
                         => delta[bk2] > delta[bk1]
            /\ \A bk1, bk2 \in AltBaseKs :
                  (bk1 < bk2 /\ bk2 + bonus <= 0) => delta[bk2] <= delta[bk1]

\* C8 witness: a snapshot with exp_winner # 1 whose magnitude grows from
\* base_k 16 to 32 and shrinks from base_k -32 to -16.
C8_Witness ==
    \E n \in 1..Len(records) :
        /\ records[n].exp_winner # One
        /\ cfg.gs_bonus_k = 0
        /\ DeltaWith(records[n], FromInt(32)) > DeltaWith(records[n], FromInt(16))
        /\ DeltaWith(records[n], FromInt(-16)) < DeltaWith(records[n], FromInt(-32))

\* Whether dictionary d holds the same for p after the step as before it.
SameEntry(d, dNext, p) ==
    /\ p \in DOMAIN dNext <=> p \in DOMAIN d
    /\ p \in DOMAIN d => dNext[p] = d[p]

\* C9: processing a row changes the rating and last_active of its winner
\* and loser at most, and no entry is ever removed.
C9_OnlyParticipantsChange ==
    [][(pc = "loop" /\ i <= Len(df)) =>
          /\ \A p \in Players \ Participants(df[i]) :
                SameEntry(elo, elo', p) /\ SameEntry(last_date, last_date', p)
          /\ DOMAIN elo \subseteq DOMAIN elo'
          /\ DOMAIN last_date \subseteq DOMAIN last_date']_vars

\* C9 witness: under decay, a dated event has just been processed while a
\* third player, idle since an earlier date, kept rating and last_active.
C9_Witness ==
    /\ Len(records) >= 2
    /\ cfg.decay_per_365d > 0
    /\ LET r == records[Len(records)]
       IN  \E p \in (DOMAIN elo \cap DOMAIN last_date) \ Participants(r) :
              /\ r.tourney_date # Null
              /\ r.tourney_date[1] > last_date[p][1]
              /\ elo[p] # cfg.seed_elo

====
